---- MODULE Spec2Model ----
(***************************************************************************)
(* A model of runtime/mercury_signal.c: the portable layer that installs   *)
(* and queries signal handlers either through sigaction() (the structured  *)
(* facility) or through signal() (the primitive facility).                 *)
(*                                                                         *)
(* The build configuration (which facility exists, whether SA_RESTART and  *)
(* SA_SIGINFO are defined, whether the sigcontext struct is in use) is     *)
(* chosen once in Init and never changes.  The process-wide disposition    *)
(* table is the only state the C code mutates; the remaining variables     *)
(* record the most recent call, what it returned and how the process ended.*)
(***************************************************************************)
EXTENDS Integers, FiniteSets, Sequences, TLC

\* Number of distinct non-null handler entry points the callers pass.
NumHandlers == 2

\* The null function pointer.  Every supported platform defines SIG_DFL as
\* the null handler, so signal(sig, NULL) requests the default disposition.
NULL == 0
SIG_DFL == NULL
\* The error sentinel signal() returns in place of the previous handler.
SIG_ERR == -1

Handlers == 1..NumHandlers
Signals == {"SIGINT", "SIGTERM"}
\* A signal number outside the platform's range; the facility rejects it.
BadSig == "BADSIG"
\* Error context strings the callers supply.
Messages == {"term handler", "bad signal"}
\* The literal MR_do_setup_signal prints when sigemptyset fails.
MaskMsg == "cannot set clear signal mask"

VARIABLES
    MR_HAVE_SIGACTION,          \* build: sigaction() is available
    MR_HAVE_SIGCONTEXT_STRUCT,  \* build: handlers use the sigcontext struct
    defined_SA_RESTART,         \* build: the platform defines SA_RESTART
    defined_SA_SIGINFO,         \* build: the platform defines SA_SIGINFO
    table,                      \* process-wide disposition of every signal
    status,                     \* "running" or "exited"
    exit_code,                  \* argument of exit() once exited
    diag,                       \* message handed to MR_perror once exited
    call,                       \* the most recent call and its arguments
    prev_op,                    \* name of the call before the most recent one
    before,                     \* disposition table when that call began
    set_act,                    \* <<descriptor>> handed to MR_set_signal_action
                                \* by the most recent call, <<>> if none
    ret                         \* <<descriptor>> MR_get_signal_action stored
                                \* through its out-parameter, <<>> if none

config == <<MR_HAVE_SIGACTION, MR_HAVE_SIGCONTEXT_STRUCT,
            defined_SA_RESTART, defined_SA_SIGINFO>>
vars == <<MR_HAVE_SIGACTION, MR_HAVE_SIGCONTEXT_STRUCT, defined_SA_RESTART,
          defined_SA_SIGINFO, table, status, exit_code, diag, call, prev_op,
          before, set_act, ret>>

\* Flag sets stand for the sa_flags bit patterns: {} is 0 and \cup is |.
\* A flag the platform does not define is #defined as 0.
SA_RESTART == IF defined_SA_RESTART THEN {"SA_RESTART"} ELSE {}
SA_SIGINFO == IF defined_SA_SIGINFO THEN {"SA_SIGINFO"} ELSE {}

\* MR_signal_action: struct sigaction on the structured facility, a bare
\* handler pointer on the primitive one.
Action(handler, flags, mask) ==
    [handler |-> handler, flags |-> flags, mask |-> mask]

HandlerOf(act) == IF MR_HAVE_SIGACTION THEN act.handler ELSE act

\* Disposition of every signal when the process starts.
DefaultAction == IF MR_HAVE_SIGACTION THEN Action(SIG_DFL, {}, {}) ELSE SIG_DFL

\* Descriptors callers hand to MR_set_signal_action directly.
SetActs ==
    IF MR_HAVE_SIGACTION
    THEN {Action(SIG_DFL, {}, {}),
          Action(1, SA_RESTART \cup SA_SIGINFO, {"SIGTERM"})}
    ELSE {SIG_DFL, 1}

----------------------------------------------------------------------------
\* Outcomes of a call: it returns with the table tbl, or the process ends.
\* act is <<descriptor>> if MR_set_signal_action was entered, out is what
\* MR_get_signal_action stored through its out-parameter.

Returned(tbl, act, out) ==
    [table |-> tbl, status |-> "running", exit_code |-> 0, diag |-> "",
     set_act |-> act, ret |-> out]

\* Fatal with exit(0) in place of exit(1).
Fatal_ExitZero(tbl, msg, act) ==
    [table |-> tbl, status |-> "exited", exit_code |-> 0, diag |-> msg,
     set_act |-> act, ret |-> <<>>]

\* MR_perror(msg); exit(1);
Fatal(tbl, msg, act) ==
    [table |-> tbl, status |-> "exited", exit_code |-> 1, diag |-> msg,
     set_act |-> act, ret |-> <<>>]

----------------------------------------------------------------------------
\* The platform calls, as used at their call sites.

\* sigaction(sig, act, NULL): install act; -1 for a signal out of range.
sigaction_set(tbl, sig, act) ==
    IF sig \in Signals
    THEN [rc |-> 0, table |-> [tbl EXCEPT ![sig] = act]]
    ELSE [rc |-> -1, table |-> tbl]

\* sigaction(sig, NULL, act): report the current disposition through act.
sigaction_get(tbl, sig) ==
    IF sig \in Signals
    THEN [rc |-> 0, oact |-> <<tbl[sig]>>, table |-> tbl]
    ELSE [rc |-> -1, oact |-> <<>>, table |-> tbl]

\* signal() returning the handler it has just installed.
signal_ReturnsNew(tbl, sig, handler) ==
    IF sig \in Signals
    THEN [ret |-> handler, table |-> [tbl EXCEPT ![sig] = handler]]
    ELSE [ret |-> SIG_ERR, table |-> tbl]

\* signal(sig, handler): install handler and return the previous one, or
\* return SIG_ERR and change nothing.
signal(tbl, sig, handler) ==
    IF sig \in Signals
    THEN [ret |-> tbl[sig], table |-> [tbl EXCEPT ![sig] = handler]]
    ELSE [ret |-> SIG_ERR, table |-> tbl]

\* act.sa_mask left as sigfillset would leave it.
EmptyMask_Filled == Signals

\* act.sa_mask after a successful sigemptyset(&act.sa_mask).
EmptyMask == {}

----------------------------------------------------------------------------
\* The functions of mercury_signal.c.

\* SetupFlags without the MR_HAVE_SIGCONTEXT_STRUCT test around SA_SIGINFO.
SetupFlags_NoSigcontextTest(need_info, restart) ==
    LET flags == IF restart THEN SA_RESTART ELSE {}
    IN  IF need_info THEN flags \cup SA_SIGINFO ELSE flags

\* SetupFlags with SA_RESTART requested unconditionally.
SetupFlags_AlwaysRestart(need_info, restart) ==
    IF need_info /\ ~MR_HAVE_SIGCONTEXT_STRUCT
    THEN SA_RESTART \cup SA_SIGINFO
    ELSE SA_RESTART

\* act.sa_flags after lines 81-93.
SetupFlags(need_info, restart) ==
    LET flags == IF restart THEN SA_RESTART ELSE {}
    IN  IF need_info /\ ~MR_HAVE_SIGCONTEXT_STRUCT
        THEN flags \cup SA_SIGINFO
        ELSE flags

\* SetupAction refusing a need_info handler on the primitive facility.
SetupAction_PrimitiveDropsInfo(handler, need_info, restart) ==
    IF MR_HAVE_SIGACTION
    THEN Action(handler, SetupFlags(need_info, restart), EmptyMask)
    ELSE IF need_info THEN SIG_DFL ELSE handler

\* SetupAction without the assignment act.MR_SIGACTION_FIELD = handler.
SetupAction_HandlerNotStored(handler, need_info, restart) ==
    IF MR_HAVE_SIGACTION
    THEN Action(NULL, SetupFlags(need_info, restart), EmptyMask)
    ELSE handler

\* The descriptor MR_do_setup_signal builds in act.
SetupAction(handler, need_info, restart) ==
    IF MR_HAVE_SIGACTION
    THEN Action(handler, SetupFlags(need_info, restart), EmptyMask)
    ELSE handler

MR_set_signal_action(tbl, sig, act, error_message) ==
    IF MR_HAVE_SIGACTION
    THEN LET r == sigaction_set(tbl, sig, act)
         IN  IF r.rc # 0
             THEN Fatal(r.table, error_message, <<act>>)
             ELSE Returned(r.table, <<act>>, <<>>)
    ELSE LET r == signal(tbl, sig, act)
         IN  IF r.ret = SIG_ERR
             THEN Fatal(r.table, error_message, <<act>>)
             ELSE Returned(r.table, <<act>>, <<>>)

MR_get_signal_action(tbl, sig, error_message) ==
    IF MR_HAVE_SIGACTION
    THEN LET r == sigaction_get(tbl, sig)
         IN  IF r.rc # 0
             THEN Fatal(r.table, error_message, <<>>)
             ELSE Returned(r.table, <<>>, r.oact)
    ELSE LET r == signal(tbl, sig, NULL)
         IN  IF r.ret = SIG_ERR
             THEN Fatal(r.table, error_message, <<>>)
             ELSE Returned(r.table, <<>>, <<r.ret>>)

\* MR_do_setup_signal starting from the installed descriptor and toggling
\* the requested flags in it (^= for =).
MR_do_setup_signal_Toggle(tbl, sig, handler, need_info, restart, error_message, mask_ok) ==
    IF MR_HAVE_SIGACTION /\ ~mask_ok
    THEN Fatal(tbl, MaskMsg, <<>>)
    ELSE MR_set_signal_action(tbl, sig,
             IF MR_HAVE_SIGACTION /\ sig \in Signals
             THEN LET new == SetupFlags(need_info, restart)
                      old == tbl[sig].flags
                  IN  Action(handler, (old \ new) \cup (new \ old), EmptyMask)
             ELSE SetupAction(handler, need_info, restart),
             error_message)

\* mask_ok: whether sigemptyset returns 0; it is only called when sigaction
\* exists.
MR_do_setup_signal(tbl, sig, handler, need_info, restart, error_message, mask_ok) ==
    IF MR_HAVE_SIGACTION /\ ~mask_ok
    THEN Fatal(tbl, MaskMsg, <<>>)
    ELSE MR_set_signal_action(tbl, sig,
             SetupAction(handler, need_info, restart), error_message)

MR_setup_signal(tbl, sig, handler, need_info, error_message, mask_ok) ==
    MR_do_setup_signal(tbl, sig, handler, need_info, TRUE, error_message, mask_ok)

\* MR_setup_signal_no_restart passing TRUE for restart.
MR_setup_signal_no_restart_Restarts(tbl, sig, handler, need_info, error_message, mask_ok) ==
    MR_do_setup_signal(tbl, sig, handler, need_info, TRUE, error_message, mask_ok)

MR_setup_signal_no_restart(tbl, sig, handler, need_info, error_message, mask_ok) ==
    MR_do_setup_signal(tbl, sig, handler, need_info, FALSE, error_message, mask_ok)

----------------------------------------------------------------------------
\* The state machine: callers invoke the four public functions in any order.

SetupOps == {"MR_setup_signal", "MR_setup_signal_no_restart"}

NoCall ==
    [op |-> "none", sig |-> BadSig, handler |-> NULL, need_info |-> FALSE,
     restart |-> FALSE, act |-> <<>>, error_message |-> "", mask_ok |-> TRUE]

Init ==
    /\ MR_HAVE_SIGACTION \in BOOLEAN
    /\ MR_HAVE_SIGCONTEXT_STRUCT \in BOOLEAN
    /\ defined_SA_RESTART \in BOOLEAN
    /\ defined_SA_SIGINFO \in BOOLEAN
    \* without sigaction the flag macros and the sigcontext test are unused
    /\ ~MR_HAVE_SIGACTION =>
           /\ ~MR_HAVE_SIGCONTEXT_STRUCT
           /\ defined_SA_RESTART
           /\ defined_SA_SIGINFO
    /\ table = [s \in Signals |-> DefaultAction]
    /\ status = "running"
    /\ exit_code = 0
    /\ diag = ""
    /\ call = NoCall
    /\ prev_op = "none"
    /\ before = table
    /\ set_act = <<>>
    /\ ret = <<>>

\* Commit the outcome r of the call c.
Finish(c, r) ==
    /\ table' = r.table
    /\ status' = r.status
    /\ exit_code' = r.exit_code
    /\ diag' = r.diag
    /\ set_act' = r.set_act
    /\ ret' = r.ret
    /\ call' = c
    /\ prev_op' = call.op
    /\ before' = table
    /\ UNCHANGED config

SetupSignal ==
    /\ status = "running"
    /\ \E sig \in Signals \cup {BadSig}, handler \in Handlers,
          need_info \in BOOLEAN, error_message \in Messages,
          mask_ok \in (IF MR_HAVE_SIGACTION THEN BOOLEAN ELSE {TRUE}) :
          Finish([op |-> "MR_setup_signal", sig |-> sig, handler |-> handler,
                  need_info |-> need_info, restart |-> TRUE, act |-> <<>>,
                  error_message |-> error_message, mask_ok |-> mask_ok],
                 MR_setup_signal(table, sig, handler, need_info,
                                 error_message, mask_ok))

SetupSignalNoRestart ==
    /\ status = "running"
    /\ \E sig \in Signals \cup {BadSig}, handler \in Handlers,
          need_info \in BOOLEAN, error_message \in Messages,
          mask_ok \in (IF MR_HAVE_SIGACTION THEN BOOLEAN ELSE {TRUE}) :
          Finish([op |-> "MR_setup_signal_no_restart", sig |-> sig,
                  handler |-> handler, need_info |-> need_info,
                  restart |-> FALSE, act |-> <<>>,
                  error_message |-> error_message, mask_ok |-> mask_ok],
                 MR_setup_signal_no_restart(table, sig, handler, need_info,
                                            error_message, mask_ok))

GetSignalAction ==
    /\ status = "running"
    /\ \E sig \in Signals \cup {BadSig}, error_message \in Messages :
          Finish([op |-> "MR_get_signal_action", sig |-> sig,
                  handler |-> NULL, need_info |-> FALSE, restart |-> FALSE,
                  act |-> <<>>, error_message |-> error_message,
                  mask_ok |-> TRUE],
                 MR_get_signal_action(table, sig, error_message))

\* Callers pass either a descriptor of their own or the one they last got.
SetSignalAction ==
    /\ status = "running"
    /\ \E sig \in Signals \cup {BadSig}, error_message \in Messages,
          act \in SetActs \cup {ret[i] : i \in DOMAIN ret} :
          Finish([op |-> "MR_set_signal_action", sig |-> sig,
                  handler |-> NULL, need_info |-> FALSE, restart |-> FALSE,
                  act |-> <<act>>, error_message |-> error_message,
                  mask_ok |-> TRUE],
                 MR_set_signal_action(table, sig, act, error_message))

Next ==
    \/ SetupSignal
    \/ SetupSignalNoRestart
    \/ GetSignalAction
    \/ SetSignalAction

Spec == Init /\ [][Next]_vars

\* The last call returned to its caller.
Ok == status = "running"

----------------------------------------------------------------------------
\* C1: a successful MR_get_signal_action leaves the disposition table as it
\* was when the call began, for the queried signal and every other signal,
\* on both facilities.
C1_GetLeavesTableUnchanged ==
    (call.op = "MR_get_signal_action" /\ Ok) => table = before

\* C2: when MR_setup_signal(s, h, need_info = FALSE) has returned and the
\* next call is a successful MR_get_signal_action(s), the descriptor it
\* returns has handler h.
C2_SetupThenGetReturnsHandler ==
    [][(/\ call.op = "MR_setup_signal"
        /\ ~call.need_info
        /\ Ok
        /\ call'.op = "MR_get_signal_action"
        /\ call'.sig = call.sig
        /\ status' = "running")
       => (ret' # <<>> /\ HandlerOf(ret'[1]) = call.handler)]_vars

C2_Witness ==
    /\ prev_op = "MR_setup_signal"
    /\ call.op = "MR_get_signal_action"
    /\ Ok
    /\ ret # <<>>
    /\ HandlerOf(ret[1]) \in Handlers
    /\ before[call.sig] = SetupAction(HandlerOf(ret[1]), FALSE, TRUE)

\* The last call was a setup call whose sigemptyset failed.
MaskFailed == call.op \in SetupOps /\ MR_HAVE_SIGACTION /\ ~call.mask_ok

\* The last call named a signal the facility rejects.
Rejected == call.op # "none" /\ call.sig \notin Signals

\* C3 as stated: whenever the process has been terminated by a failure, the
\* diagnostic is the error context the caller supplied and the exit status
\* is non-zero.
C3_DiagnosticIsCallerContext ==
    status = "exited" => (diag = call.error_message /\ exit_code # 0)

\* C3 amended: every failure path terminates the process with a non-zero
\* status and never returns; a rejected registration or query prints the
\* caller's error context, a failed mask clearing prints the fixed text
\* "cannot set clear signal mask".
C3_FailurePathsTerminate ==
    /\ (MaskFailed \/ Rejected) => status = "exited"
    /\ status = "exited" =>
           /\ exit_code # 0
           /\ diag = (IF MaskFailed THEN MaskMsg ELSE call.error_message)
           /\ ~ENABLED Next

C3_Witness ==
    /\ status = "exited"
    /\ Rejected
    /\ ~MaskFailed
    /\ diag = "bad signal"
    /\ call.op = "MR_get_signal_action"

\* C4: when the sigcontext struct is in use, no setup call installs a
\* descriptor with SA_SIGINFO set, whatever need_info is and whatever was
\* installed before.
C4_NoSiginfoWithSigcontext ==
    (MR_HAVE_SIGCONTEXT_STRUCT /\ call.op \in SetupOps /\ Ok) =>
        /\ "SA_SIGINFO" \notin table[call.sig].flags
        /\ "SA_SIGINFO" \notin set_act[1].flags

C4_Witness ==
    /\ MR_HAVE_SIGCONTEXT_STRUCT
    /\ defined_SA_SIGINFO
    /\ call.op \in SetupOps
    /\ call.need_info
    /\ prev_op \in SetupOps
    /\ Ok
    /\ "SA_SIGINFO" \notin table[call.sig].flags

\* C5: with sigaction and SA_RESTART defined, the descriptor a setup call
\* installs has SA_RESTART set exactly when the call asked for restart.
C5_RestartBitIffRequested ==
    (MR_HAVE_SIGACTION /\ defined_SA_RESTART /\ call.op \in SetupOps /\ Ok) =>
        (("SA_RESTART" \in table[call.sig].flags) <=> call.restart)

C5_Witness ==
    /\ MR_HAVE_SIGACTION
    /\ defined_SA_RESTART
    /\ call.op = "MR_setup_signal_no_restart"
    /\ call.need_info
    /\ Ok
    /\ "SA_RESTART" \in before[call.sig].flags
    /\ "SA_RESTART" \notin table[call.sig].flags

\* C6: a setup call repeated with the same arguments right after it returned
\* leaves the whole disposition table as the first call left it.
C6_SetupIdempotent ==
    [][(/\ call.op \in SetupOps
        /\ Ok
        /\ call'.op = call.op
        /\ call'.sig = call.sig
        /\ call'.handler = call.handler
        /\ call'.need_info = call.need_info
        /\ status' = "running")
       => table' = table]_vars

C6_Witness ==
    /\ prev_op \in SetupOps
    /\ call.op = prev_op
    /\ Ok
    /\ table = before
    /\ table[call.sig] =
           SetupAction(call.handler, call.need_info, call.restart)
    /\ \E s \in Signals \ {call.sig} : table[s] # DefaultAction

\* C7: on the primitive facility a setup call leaves the disposition of its
\* signal equal to the bare handler reference, for both wrappers and both
\* values of need_info.
C7_PrimitiveInstallsBareHandler ==
    (~MR_HAVE_SIGACTION /\ call.op \in SetupOps /\ Ok) =>
        /\ table[call.sig] = call.handler
        /\ set_act = <<call.handler>>

C7_Witness ==
    /\ ~MR_HAVE_SIGACTION
    /\ call.op = "MR_setup_signal"
    /\ call.need_info
    /\ Ok
    /\ table[call.sig] = call.handler
    /\ before[call.sig] # call.handler

\* C8: MR_setup_signal_no_restart(s, h, need_info, msg) ends in the same
\* table and the same return-or-exit outcome as
\* MR_do_setup_signal(s, h, need_info, FALSE, msg) from the same table.
C8_NoRestartIsSetupWithFalse ==
    [][call'.op = "MR_setup_signal_no_restart" =>
         LET r == MR_do_setup_signal(table, call'.sig, call'.handler,
                      call'.need_info, FALSE, call'.error_message,
                      call'.mask_ok)
         IN  /\ table' = r.table
             /\ status' = r.status
             /\ exit_code' = r.exit_code
             /\ diag' = r.diag]_vars

C8_Witness ==
    /\ MR_HAVE_SIGACTION
    /\ defined_SA_RESTART
    /\ call.op = "MR_setup_signal_no_restart"
    /\ Ok
    /\ "SA_RESTART" \in before[call.sig].flags
    /\ table[call.sig] = SetupAction(call.handler, call.need_info, FALSE)

\* C9: with sigaction, the descriptor a setup call hands to
\* MR_set_signal_action has an empty sa_mask; when sigemptyset fails the
\* process exits without MR_set_signal_action being entered and the
\* disposition table is as it was.
C9_MaskEmptyOrNoSet ==
    (MR_HAVE_SIGACTION /\ call.op \in SetupOps) =>
        /\ set_act # <<>> => set_act[1].mask = {}
        /\ Ok => (set_act # <<>> /\ table[call.sig].mask = {})
        /\ ~call.mask_ok =>
               (set_act = <<>> /\ status = "exited" /\ table = before)

C9_Witness ==
    /\ MR_HAVE_SIGACTION
    /\ call.op \in SetupOps
    /\ Ok
    /\ before[call.sig].mask # {}
    /\ set_act # <<>>
    /\ set_act[1].mask = {}

\* C10: a successful MR_get_signal_action(s) followed at once by a
\* successful MR_set_signal_action(s, d) of the descriptor d it returned
\* leaves the whole table as it was before the get.
C10_GetThenSetRestores ==
    [][(/\ call.op = "MR_get_signal_action"
        /\ Ok
        /\ call'.op = "MR_set_signal_action"
        /\ call'.sig = call.sig
        /\ call'.act = ret
        /\ status' = "running")
       => table' = before]_vars

C10_Witness ==
    /\ prev_op = "MR_get_signal_action"
    /\ call.op = "MR_set_signal_action"
    /\ Ok
    /\ call.act = <<table[call.sig]>>
    /\ table[call.sig] # DefaultAction
    /\ before[call.sig] # table[call.sig]

====
